---- MODULE Spec2Model ----
(***************************************************************************)
(* Model of dns.py: one run of the command-line tool that lists, creates,  *)
(* updates and deletes the DNS records of one zone through a provider API. *)
(* The provider is the environment: every API call is logged in `calls`    *)
(* and its outcome (result, APIError, other exception) is chosen           *)
(* nondeterministically at the call.                                       *)
(***************************************************************************)
EXTENDS Integers, Sequences, FiniteSets, TLC

VARIABLES env, argv, pc, config, record_type, all_records, existing_record,
          delete_result, delete_ret, calls, stdout, stderr, exit_code

vars == <<env, argv, pc, config, record_type, all_records, existing_record,
          delete_result, delete_ret, calls, stdout, stderr, exit_code>>

(* Largest number of records the provider returns for the zone. *)
MaxRecords == 2

(* Optional values: Python's None and a present value. *)
None == <<>>
Some(x) == <<x>>

(* ---------------------------------------------------------------------- *)
(* Input domains                                                           *)
(* ---------------------------------------------------------------------- *)

EnvKeys == <<"CLOUDFLARE_EMAIL", "CLOUDFLARE_API_KEY", "ZONE_ID">>

Whitespace == {" ", "\t"}

(* os.environ.get(key): None when unset, else a string (sequence of chars) *)
EnvValues == {None, Some(<<>>), Some(<<" ">>), Some(<<" ", "\t">>),
              Some(<<" ", "z">>)}

Names == {"a.example.com", "b.example.com"}
Addresses == {"1.2.3.4", "5.6.7.8"}
Types == {"A", "AAAA"}

(* created_on / modified_on of a record: None or a datetime (an integer). *)
Stamps == {<<None, None>>, <<Some(1), Some(2)>>}

(* The provider's identifier of the i-th record of the zone. *)
RecordId(i) == 100 + i

RecordFields == [type : Types, name : Names, content : Addresses,
                 proxied : BOOLEAN, stamps : Stamps]

MkRecord(i, f) ==
    [id |-> RecordId(i), type |-> f.type, name |-> f.name,
     content |-> f.content, proxied |-> f.proxied, ttl |-> 1,
     created_on |-> f.stamps[1], modified_on |-> f.stamps[2]]

(* The records the list endpoint returns, given the fields of each. *)
Records(fs) == [i \in 1..Len(fs) |-> MkRecord(i, fs[i])]

(* The fields of the records of every zone of n records. *)
ZonesOfSize(n) == [1..n -> RecordFields]

(* Parsed command lines; "invalid" is one that argparse rejects. *)
Argvs ==
    {[action |-> "add", record_name |-> n, ip_address |-> a, proxy |-> p] :
        n \in Names, a \in Addresses, p \in BOOLEAN}
    \cup {[action |-> "rm", record_name |-> n] : n \in Names}
    \cup {[action |-> "list"], [action |-> "invalid"]}

(* A line written by print(): what it says and the value it carries. *)
Msg(kind, detail) == [kind |-> kind, detail |-> detail]

(* ---------------------------------------------------------------------- *)
(* Configuration                                                           *)
(* ---------------------------------------------------------------------- *)

RECURSIVE lstrip(_)
lstrip(s) == IF s # <<>> /\ Head(s) \in Whitespace THEN lstrip(Tail(s)) ELSE s

RECURSIVE rstrip(_)
rstrip(s) ==
    IF s # <<>> /\ s[Len(s)] \in Whitespace
    THEN rstrip(SubSeq(s, 1, Len(s) - 1)) ELSE s

(* str.strip() *)
strip(s) == rstrip(lstrip(s))

(* get_env with the emptiness test on the raw value instead of strip(). *)
get_env_rejects_unstripped(value) == value = None \/ value[1] = <<>>

(* get_env: the condition under which it prints the error and exits. *)
get_env_rejects(value) == value = None \/ strip(value[1]) = <<>>

(* load_config reads the keys in order; index of the first one get_env
   rejects, 0 when all three are accepted. *)
load_config_failure(e) ==
    IF get_env_rejects(e[EnvKeys[1]]) THEN 1
    ELSE IF get_env_rejects(e[EnvKeys[2]]) THEN 2
    ELSE IF get_env_rejects(e[EnvKeys[3]]) THEN 3
    ELSE 0

(* load_config's result: get_env returns the value as read, unstripped. *)
load_config(e) ==
    [k \in {EnvKeys[i] : i \in 1..3} |-> e[k][1]]

(* sys.exit(code) after the lines `err` went to stderr and `out` to stdout *)
Exit(code, out, err) ==
    /\ pc' = "exited"
    /\ exit_code' = code
    /\ stdout' = stdout \o out
    /\ stderr' = stderr \o err

Init ==
    /\ env \in [{EnvKeys[i] : i \in 1..3} -> EnvValues]
    /\ argv \in Argvs
    /\ pc = "start"
    /\ config = None
    /\ record_type = None
    /\ all_records = None
    /\ existing_record = None
    /\ delete_result = None
    /\ delete_ret = None
    /\ calls = <<>>
    /\ stdout = <<>>
    /\ stderr = <<>>
    /\ exit_code = -1

(* main, line 170: load_config() with a variable get_env rejects. *)
LoadConfigFail ==
    /\ pc = "start"
    /\ load_config_failure(env) # 0
    /\ Exit(1, <<>>, <<Msg("env_error", EnvKeys[load_config_failure(env)])>>)
    /\ UNCHANGED <<env, argv, config, record_type, all_records,
                   existing_record, delete_result, delete_ret, calls>>

(* main, line 170: load_config() succeeds. *)
LoadConfigOk ==
    /\ pc = "start"
    /\ load_config_failure(env) = 0
    /\ config' = Some(load_config(env))
    /\ pc' = "client"
    /\ UNCHANGED <<env, argv, record_type, all_records, existing_record,
                   delete_result, delete_ret, calls, stdout, stderr, exit_code>>

(* main, lines 172-179: the client constructor returns or raises. *)
InitClient ==
    /\ pc = "client"
    /\ \E raised \in BOOLEAN :
        IF raised
        THEN Exit(1, <<>>, <<Msg("client_error", "")>>)
        ELSE /\ pc' = "parse"
             /\ UNCHANGED <<stdout, stderr, exit_code>>
    /\ UNCHANGED <<env, argv, config, record_type, all_records,
                   existing_record, delete_result, delete_ret, calls>>

(* main, lines 181-198: argparse rejects the command line (usage on stderr,
   exit status 2) or selects the handler, which is then called. *)
ParseArgs ==
    /\ pc = "parse"
    /\ IF argv.action = "invalid"
       THEN Exit(2, <<>>, <<Msg("usage_error", "")>>)
       ELSE /\ pc' = argv.action
            /\ UNCHANGED <<stdout, stderr, exit_code>>
    /\ UNCHANGED <<env, argv, config, record_type, all_records,
                   existing_record, delete_result, delete_ret, calls>>

(* ---------------------------------------------------------------------- *)
(* Provider calls                                                          *)
(* ---------------------------------------------------------------------- *)

ZoneId == config[1].ZONE_ID

(* What a handler leaves unchanged in every step after the start-up. *)
Frame == UNCHANGED <<env, argv, config>>

(* get_all_dns_records whose except branches return an empty list instead
   of exiting. *)
get_all_dns_records_failed_returns(kind, out, next) ==
    /\ all_records' = Some(<<>>)
    /\ pc' = next
    /\ stdout' = stdout \o out
    /\ stderr' = stderr \o <<Msg(kind, "")>>
    /\ UNCHANGED exit_code

(* get_all_dns_records, the two except branches: diagnostic, sys.exit(1). *)
get_all_dns_records_failed(kind, out, next) ==
    /\ all_records' = all_records
    /\ Exit(1, out, <<Msg(kind, "")>>)

(* get_all_dns_records: one list call; the materialised records are
   returned to the handler, which continues at `next`. *)
get_all_dns_records(zone_id, out, next) ==
    /\ calls' = Append(calls, [op |-> "list", zone_id |-> zone_id])
    /\ \/ \E n \in 0..MaxRecords : \E fs \in ZonesOfSize(n) :
            /\ all_records' = Some(Records(fs))
            /\ pc' = next
            /\ stdout' = stdout \o out
            /\ UNCHANGED <<stderr, exit_code>>
       \/ \E kind \in {"list_error", "list_unexpected"} :
            get_all_dns_records_failed(kind, out, next)

(* find_dns_record that compares the name only. *)
find_dns_record_by_name(name, rtype, records) ==
    LET hits == {i \in 1..Len(records) : records[i].name = name}
    IN  IF hits = {} THEN None
        ELSE Some(records[CHOOSE i \in hits : \A j \in hits : i <= j])

(* find_dns_record whose test joins the two comparisons with `or`. *)
find_dns_record_either(name, rtype, records) ==
    LET hits == {i \in 1..Len(records) :
                    records[i].name = name \/ records[i].type = rtype}
    IN  IF hits = {} THEN None
        ELSE Some(records[CHOOSE i \in hits : \A j \in hits : i <= j])

(* find_dns_record that keeps scanning and returns the last match. *)
find_dns_record_last(name, rtype, records) ==
    LET hits == {i \in 1..Len(records) :
                    records[i].name = name /\ records[i].type = rtype}
    IN  IF hits = {} THEN None
        ELSE Some(records[CHOOSE i \in hits : \A j \in hits : i >= j])

(* find_dns_record: the loop over `records`, as a scan from the left. *)
RECURSIVE find_dns_record(_, _, _)
find_dns_record(name, rtype, records) ==
    IF records = <<>> THEN None
    ELSE IF Head(records).name = name /\ Head(records).type = rtype
         THEN Some(Head(records))
         ELSE find_dns_record(name, rtype, Tail(records))

(* The create call that always sends proxied = False. *)
create_call_unproxied(zone_id, rtype, name, content, proxied) ==
    [op |-> "create", zone_id |-> zone_id, type |-> rtype, name |-> name,
     content |-> content, proxied |-> FALSE]

(* cf.dns.records.create(...), lines 45-51 *)
create_call(zone_id, rtype, name, content, proxied) ==
    [op |-> "create", zone_id |-> zone_id, type |-> rtype, name |-> name,
     content |-> content, proxied |-> proxied]

(* create_dns_record; a return is followed by the return of the handler and
   of main, so the process ends with status 0. *)
create_dns_record(zone_id, rtype, name, content, proxied, out) ==
    /\ calls' = Append(calls, create_call(zone_id, rtype, name, content, proxied))
    /\ \/ Exit(0, out \o <<Msg("create_attempt", name), Msg("created", name)>>,
               <<>>)
       \/ \E already_exists \in BOOLEAN :
            Exit(1,
                 out \o <<Msg("create_attempt", name)>>
                     \o (IF already_exists THEN <<Msg("create_hint", "")>>
                                           ELSE <<>>),
                 <<Msg("create_error", "")>>)
       \/ Exit(1, out \o <<Msg("create_attempt", name)>>,
               <<Msg("create_unexpected", "")>>)

(* cf.dns.records.update(...), lines 66-73 *)
update_call(zone_id, id, rtype, name, content, proxied) ==
    [op |-> "update", zone_id |-> zone_id, id |-> id, type |-> rtype,
     name |-> name, content |-> content, proxied |-> proxied]

(* update_dns_record *)
update_dns_record(zone_id, id, rtype, name, content, proxied, out) ==
    /\ calls' = Append(calls, update_call(zone_id, id, rtype, name, content, proxied))
    /\ \/ Exit(0, out \o <<Msg("update_attempt", name), Msg("updated", name)>>,
               <<>>)
       \/ \E kind \in {"update_error", "update_unexpected"} :
            Exit(1, out \o <<Msg("update_attempt", name)>>, <<Msg(kind, "")>>)

(* What the delete endpoint can answer to a delete of `id`: nothing, or a
   response whose id is missing, the requested one, or another one. *)
DeleteResponses(id) ==
    {None, Some([id |-> None]), Some([id |-> Some(id)]), Some([id |-> Some(0)])}

(* The check of line 91 without the comparison of the identifiers. *)
delete_confirmed_any_response(result, id) == result # None

(* delete_dns_record, line 91 *)
delete_confirmed(result, id) == result # None /\ result[1].id = Some(id)

(* delete_dns_record; its return value is ignored by handle_remove, which
   returns, and the process ends with status 0. *)
delete_dns_record(zone_id, id, name, out) ==
    /\ calls' = Append(calls, [op |-> "delete", zone_id |-> zone_id, id |-> id])
    /\ \/ \E result \in DeleteResponses(id) :
            /\ delete_result' = Some(result)
            /\ delete_ret' = Some(delete_confirmed(result, id))
            /\ IF delete_confirmed(result, id)
               THEN Exit(0, out \o <<Msg("delete_attempt", name),
                                     Msg("deleted", name)>>, <<>>)
               ELSE Exit(0, out \o <<Msg("delete_attempt", name)>>,
                         <<Msg("delete_warning", name)>>)
       \/ \E kind \in {"delete_error", "delete_unexpected"} :
            /\ Exit(1, out \o <<Msg("delete_attempt", name)>>, <<Msg(kind, "")>>)
            /\ UNCHANGED <<delete_result, delete_ret>>

(* ---------------------------------------------------------------------- *)
(* Command handlers                                                        *)
(* ---------------------------------------------------------------------- *)

(* handle_add_or_update, lines 107-113 *)
HandleAddFetch ==
    /\ pc = "add"
    /\ record_type' = Some("A")
    /\ get_all_dns_records(ZoneId, <<Msg("fetching", ZoneId)>>, "add_fetched")
    /\ UNCHANGED <<existing_record, delete_result, delete_ret>>
    /\ Frame

(* The test of line 120 on the address alone. *)
record_is_current_content_only(record, ip_address, proxied) ==
    record.content = ip_address

(* handle_add_or_update, line 120 *)
record_is_current(record, ip_address, proxied) ==
    record.content = ip_address /\ record.proxied = proxied

(* handle_add_or_update, line 116 *)
AddSearch == find_dns_record(argv.record_name, record_type[1], all_records[1])

(* handle_add_or_update, lines 115-121: the record is as requested. *)
HandleAddNoChange ==
    /\ pc = "add_fetched"
    /\ AddSearch # None
    /\ record_is_current(AddSearch[1], argv.ip_address, argv.proxy)
    /\ existing_record' = AddSearch
    /\ Exit(0, <<Msg("searching", argv.record_name),
                 Msg("found", AddSearch[1].id), Msg("no_change", "")>>, <<>>)
    /\ UNCHANGED <<record_type, all_records, delete_result, delete_ret, calls>>
    /\ Frame

(* handle_add_or_update, lines 115-123: the record differs, update it. *)
HandleAddUpdate ==
    /\ pc = "add_fetched"
    /\ AddSearch # None
    /\ ~record_is_current(AddSearch[1], argv.ip_address, argv.proxy)
    /\ existing_record' = AddSearch
    /\ update_dns_record(ZoneId, AddSearch[1].id, record_type[1],
                         argv.record_name, argv.ip_address, argv.proxy,
                         <<Msg("searching", argv.record_name),
                           Msg("found", AddSearch[1].id)>>)
    /\ UNCHANGED <<record_type, all_records, delete_result, delete_ret>>
    /\ Frame

(* handle_add_or_update, lines 115-116, 124-126: no record, create it. *)
HandleAddCreate ==
    /\ pc = "add_fetched"
    /\ AddSearch = None
    /\ existing_record' = AddSearch
    /\ create_dns_record(ZoneId, record_type[1], argv.record_name,
                         argv.ip_address, argv.proxy,
                         <<Msg("searching", argv.record_name),
                           Msg("no_existing", argv.record_name)>>)
    /\ UNCHANGED <<record_type, all_records, delete_result, delete_ret>>
    /\ Frame

(* handle_remove, lines 129-133 *)
HandleRemoveFetch ==
    /\ pc = "rm"
    /\ record_type' = Some("A")
    /\ get_all_dns_records(ZoneId, <<Msg("fetching", ZoneId)>>, "rm_fetched")
    /\ UNCHANGED <<existing_record, delete_result, delete_ret>>
    /\ Frame

(* handle_remove, line 136 *)
RemoveSearch == find_dns_record(argv.record_name, record_type[1], all_records[1])

(* handle_remove, lines 135-140 *)
HandleRemoveDelete ==
    /\ pc = "rm_fetched"
    /\ RemoveSearch # None
    /\ existing_record' = RemoveSearch
    /\ delete_dns_record(ZoneId, RemoveSearch[1].id, argv.record_name,
                         <<Msg("searching", argv.record_name),
                           Msg("found_to_delete", RemoveSearch[1].id)>>)
    /\ UNCHANGED <<record_type, all_records>>
    /\ Frame

(* handle_remove, lines 135-136, 141-143 *)
HandleRemoveMissing ==
    /\ pc = "rm_fetched"
    /\ RemoveSearch = None
    /\ existing_record' = RemoveSearch
    /\ Exit(1, <<Msg("searching", argv.record_name)>>,
            <<Msg("rm_not_found", argv.record_name)>>)
    /\ UNCHANGED <<record_type, all_records, delete_result, delete_ret, calls>>
    /\ Frame

(* handle_list, lines 146-147 *)
HandleListFetch ==
    /\ pc = "list"
    /\ get_all_dns_records(ZoneId, <<Msg("fetching", ZoneId)>>, "list_fetched")
    /\ UNCHANGED <<record_type, existing_record, delete_result, delete_ret>>
    /\ Frame

(* datetime.isoformat(): the text of a datetime *)
isoformat(t) == ToString(t)

(* The rendering of a record without its modification time. *)
output_record_without_modified(record) ==
    [id |-> record.id, type |-> record.type, name |-> record.name,
     content |-> record.content, proxied |-> record.proxied,
     ttl |-> record.ttl,
     created_on |-> IF record.created_on # None
                    THEN Some(isoformat(record.created_on[1])) ELSE None]

(* handle_list, lines 155-164: the dict rendered for one record *)
output_record(record) ==
    [id |-> record.id, type |-> record.type, name |-> record.name,
     content |-> record.content, proxied |-> record.proxied,
     ttl |-> record.ttl,
     created_on |-> IF record.created_on # None
                    THEN Some(isoformat(record.created_on[1])) ELSE None,
     modified_on |-> IF record.modified_on # None
                     THEN Some(isoformat(record.modified_on[1])) ELSE None]

(* handle_list, lines 153-164: the list built by the loop *)
output_records(records) ==
    [i \in 1..Len(records) |-> output_record(records[i])]

(* handle_list, lines 149-151: empty zone *)
HandleListEmpty ==
    /\ pc = "list_fetched"
    /\ all_records[1] = <<>>
    /\ Exit(0, <<Msg("no_records", "")>>, <<>>)
    /\ UNCHANGED <<record_type, all_records, existing_record, delete_result,
                   delete_ret, calls>>
    /\ Frame

(* handle_list, lines 153-166: json.dumps of the rendered records *)
HandleListPrint ==
    /\ pc = "list_fetched"
    /\ all_records[1] # <<>>
    /\ Exit(0, <<Msg("json", output_records(all_records[1]))>>, <<>>)
    /\ UNCHANGED <<record_type, all_records, existing_record, delete_result,
                   delete_ret, calls>>
    /\ Frame

Next ==
    \/ LoadConfigFail
    \/ LoadConfigOk
    \/ InitClient
    \/ ParseArgs
    \/ HandleAddFetch
    \/ HandleAddNoChange
    \/ HandleAddUpdate
    \/ HandleAddCreate
    \/ HandleRemoveFetch
    \/ HandleRemoveDelete
    \/ HandleRemoveMissing
    \/ HandleListFetch
    \/ HandleListEmpty
    \/ HandleListPrint

Spec == Init /\ [][Next]_vars

(* ---------------------------------------------------------------------- *)
(* find_dns_record on its own, for every query                             *)
(* ---------------------------------------------------------------------- *)

InitFind ==
    /\ \E n \in 0..MaxRecords : \E fs \in ZonesOfSize(n) :
          all_records = Some(Records(fs))
    /\ env \in [{EnvKeys[i] : i \in 1..3} -> {Some(<<"z">>)}]
    /\ argv \in {[action |-> "find", record_name |-> n] : n \in Names}
    /\ pc = "find"
    /\ config = None
    /\ record_type \in {Some(t) : t \in Types}
    /\ existing_record = None
    /\ delete_result = None
    /\ delete_ret = None
    /\ calls = <<>>
    /\ stdout = <<>>
    /\ stderr = <<>>
    /\ exit_code = -1

FindStep ==
    /\ pc = "find"
    /\ existing_record' =
          find_dns_record(argv.record_name, record_type[1], all_records[1])
    /\ pc' = "found"
    /\ UNCHANGED <<env, argv, config, record_type, all_records, delete_result,
                   delete_ret, calls, stdout, stderr, exit_code>>

NextFind == FindStep

SpecFind == InitFind /\ [][NextFind]_vars

(* ---------------------------------------------------------------------- *)
(* Properties                                                              *)
(* ---------------------------------------------------------------------- *)

Exited == pc = "exited"

Listed == all_records # None

(* Positions of the calls of one kind in the log of issued calls. *)
CallsOf(op) == {i \in 1..Len(calls) : calls[i].op = op}

MutationCalls == CallsOf("create") \cup CallsOf("update") \cup CallsOf("delete")

(* Positions of the records equal to the query on both fields. *)
Matches(name, rtype, records) ==
    {i \in 1..Len(records) : records[i].name = name /\ records[i].type = rtype}

FirstMatch(name, rtype, records) ==
    records[CHOOSE i \in Matches(name, rtype, records) :
                \A j \in Matches(name, rtype, records) : i <= j]

(* The A records of the fetched zone that carry the requested name. *)
Wanted == Matches(argv.record_name, "A", all_records[1])

WantedFirst == FirstMatch(argv.record_name, "A", all_records[1])

(* C1: when the list call succeeded and no fetched record has the requested
   name and type "A", a finished `add` has issued exactly one create call,
   carrying type "A", the requested name, the requested ip as content and
   the --proxy flag as proxied, and no update and no delete call. *)
C1_AddCreatesWhenAbsent ==
    (Exited /\ argv.action = "add" /\ Listed /\ Wanted = {}) =>
        /\ Cardinality(CallsOf("create")) = 1
        /\ \A i \in CallsOf("create") :
              /\ calls[i].type = "A"
              /\ calls[i].name = argv.record_name
              /\ calls[i].content = argv.ip_address
              /\ calls[i].proxied = argv.proxy
        /\ CallsOf("update") = {}
        /\ CallsOf("delete") = {}

(* An add with --proxy has finished against a zone that holds a record of
   the requested name but of another type, and a create call was issued. *)
C1_Witness ==
    /\ Exited /\ argv.action = "add" /\ Listed /\ Wanted = {}
    /\ argv.proxy
    /\ \E i \in 1..Len(all_records[1]) :
          all_records[1][i].name = argv.record_name
    /\ CallsOf("create") # {}

(* C2: when the first fetched record with the requested name and type "A"
   has the requested content and proxied flag, `add` issues no create, no
   update and no delete call, and the process ends with exit status 0. *)
C2_AddIdenticalIsNoOp ==
    (argv.action = "add" /\ Listed /\ Wanted # {}
        /\ WantedFirst.content = argv.ip_address
        /\ WantedFirst.proxied = argv.proxy) =>
        /\ MutationCalls = {}
        /\ Exited => exit_code = 0

(* An add has finished where the first match is as requested while a second
   record of the same name and type is not. *)
C2_Witness ==
    /\ Exited /\ argv.action = "add" /\ Listed /\ Wanted # {}
    /\ WantedFirst.content = argv.ip_address
    /\ WantedFirst.proxied = argv.proxy
    /\ Cardinality(Wanted) = 2
    /\ \E i \in Wanted : all_records[1][i].content # argv.ip_address
    /\ exit_code = 0

(* C3: when the first fetched record with the requested name and type "A"
   differs from the request in content or in the proxied flag, a finished
   `add` has issued exactly one update call, with that record's identifier
   and the requested content and proxied flag, and no create and no delete
   call. *)
C3_AddDifferentUpdates ==
    (Exited /\ argv.action = "add" /\ Listed /\ Wanted # {}
        /\ (WantedFirst.content # argv.ip_address
            \/ WantedFirst.proxied # argv.proxy)) =>
        /\ Cardinality(CallsOf("update")) = 1
        /\ \A i \in CallsOf("update") :
              /\ calls[i].id = WantedFirst.id
              /\ calls[i].content = argv.ip_address
              /\ calls[i].proxied = argv.proxy
        /\ CallsOf("create") = {}
        /\ CallsOf("delete") = {}

(* An add has finished where the first match has the requested address but
   not the requested proxied flag, and an update call was issued. *)
C3_Witness ==
    /\ Exited /\ argv.action = "add" /\ Listed /\ Wanted # {}
    /\ WantedFirst.content = argv.ip_address
    /\ WantedFirst.proxied # argv.proxy
    /\ CallsOf("update") # {}

(* C4: a finished `rm` against a fetched zone without a record of the
   requested name and type "A" has a non-zero exit status and issued no
   delete call; against a zone with such a record it issued exactly one
   delete call, with the identifier of the first such record. *)
C4_RemoveFoundOrFail ==
    (Exited /\ argv.action = "rm" /\ Listed) =>
        IF Wanted = {}
        THEN exit_code # 0 /\ CallsOf("delete") = {}
        ELSE /\ Cardinality(CallsOf("delete")) = 1
             /\ \A i \in CallsOf("delete") : calls[i].id = WantedFirst.id

(* An rm has failed against a non-empty zone that holds the requested name
   only with another type. *)
C4_Witness ==
    /\ Exited /\ argv.action = "rm" /\ Listed /\ Wanted = {}
    /\ \E i \in 1..Len(all_records[1]) :
          all_records[1][i].name = argv.record_name
    /\ exit_code = 1
    /\ CallsOf("delete") = {}

(* A variable of the environment that is unset, empty or only whitespace. *)
Blank(value) ==
    value = None \/ \A i \in 1..Len(value[1]) : value[1][i] \in Whitespace

SomeBlank == \E i \in 1..3 : Blank(env[EnvKeys[i]])

(* C5: when one of the three required environment variables is unset, empty
   or whitespace-only, no call is ever issued, the run never gets past the
   configuration, and it ends with a non-zero exit status, whatever the
   command. *)
C5_BlankEnvStopsBeforeCalls ==
    SomeBlank =>
        /\ calls = <<>>
        /\ pc \in {"start", "exited"}
        /\ Exited => exit_code # 0

(* A run of `add` has ended where only ZONE_ID is blank, being whitespace. *)
C5_Witness ==
    /\ Exited /\ argv.action = "add"
    /\ env["ZONE_ID"] = Some(<<" ", "\t">>)
    /\ ~Blank(env["CLOUDFLARE_EMAIL"]) /\ ~Blank(env["CLOUDFLARE_API_KEY"])
    /\ exit_code = 1

(* C6: for every sequence of records and every query (name, type),
   find_dns_record returns the record of smallest index equal to the query
   on both fields, returns None exactly when there is none, and never
   returns a record equal on one field only. *)
C6_FindFirstMatch ==
    pc = "found" =>
        LET hits == Matches(argv.record_name, record_type[1], all_records[1])
        IN  /\ (existing_record = None) <=> (hits = {})
            /\ hits # {} =>
                  existing_record =
                     Some(FirstMatch(argv.record_name, record_type[1],
                                     all_records[1]))
            /\ existing_record # None =>
                  /\ existing_record[1].name = argv.record_name
                  /\ existing_record[1].type = record_type[1]

(* The search skipped a first record equal on the name only and returned
   the second one. *)
C6_Witness ==
    /\ pc = "found"
    /\ Len(all_records[1]) = 2
    /\ all_records[1][1].name = argv.record_name
    /\ all_records[1][1].type # record_type[1]
    /\ existing_record = Some(all_records[1][2])

ListFailed ==
    \E i \in 1..Len(stderr) : stderr[i].kind \in {"list_error", "list_unexpected"}

(* C7: a run issues at most two calls; the first is the list call and the
   second, if any, is one create, update or delete call; the list command
   issues no mutation call, and none follows a failed list call. *)
C7_AtMostListThenOneMutation ==
    /\ Len(calls) <= 2
    /\ Len(calls) >= 1 => calls[1].op = "list"
    /\ Len(calls) = 2 => calls[2].op \in {"create", "update", "delete"}
    /\ argv.action = "list" => MutationCalls = {}
    /\ ListFailed => MutationCalls = {}

(* A run of rm has issued the list call and then a delete call. *)
C7_Witness ==
    /\ Exited /\ argv.action = "rm"
    /\ Len(calls) = 2 /\ calls[1].op = "list" /\ calls[2].op = "delete"

Diagnostics ==
    {"env_error", "client_error", "usage_error", "list_error",
     "list_unexpected", "create_error", "create_hint", "create_unexpected",
     "update_error", "update_unexpected", "delete_error", "delete_unexpected",
     "delete_warning", "rm_not_found"}

(* C8: every diagnostic line (configuration error, list, create, update or
   delete error, error hint, not-found error of rm, delete warning) is on
   the error stream and never on standard output. *)
C8_DiagnosticsOnStderr ==
    /\ \A i \in 1..Len(stdout) : stdout[i].kind \notin Diagnostics
    /\ \A i \in 1..Len(stderr) : stderr[i].kind \in Diagnostics

OutputFields ==
    {"id", "type", "name", "content", "proxied", "ttl", "created_on",
     "modified_on"}

Printed(kind) == {i \in 1..Len(stdout) : stdout[i].kind = kind}

(* C9: a finished `list` of an empty zone has printed the "no records"
   message and no array; of a zone of n > 0 records it has printed exactly
   one array of n objects, in the order of the fetched records, each with
   exactly the fields id, type, name, content, proxied, ttl, created_on and
   modified_on. *)
C9_ListOutput ==
    (Exited /\ argv.action = "list" /\ Listed) =>
        IF all_records[1] = <<>>
        THEN Cardinality(Printed("no_records")) = 1 /\ Printed("json") = {}
        ELSE /\ Cardinality(Printed("json")) = 1
             /\ \A i \in Printed("json") :
                  /\ Len(stdout[i].detail) = Len(all_records[1])
                  /\ \A k \in 1..Len(all_records[1]) :
                        /\ DOMAIN stdout[i].detail[k] = OutputFields
                        /\ stdout[i].detail[k].id = all_records[1][k].id
                        /\ stdout[i].detail[k].type = all_records[1][k].type
                        /\ stdout[i].detail[k].name = all_records[1][k].name
                        /\ stdout[i].detail[k].content = all_records[1][k].content
                        /\ stdout[i].detail[k].proxied = all_records[1][k].proxied
                        /\ stdout[i].detail[k].ttl = all_records[1][k].ttl

(* A list of two records that differ in every field has been printed. *)
C9_Witness ==
    /\ Exited /\ argv.action = "list" /\ Listed
    /\ Len(all_records[1]) = 2
    /\ all_records[1][1].name # all_records[1][2].name
    /\ all_records[1][1].type # all_records[1][2].type
    /\ all_records[1][1].created_on = None
    /\ all_records[1][2].created_on # None
    /\ Printed("json") # {}

FatalKinds ==
    {"list_error", "list_unexpected", "create_error", "create_unexpected",
     "update_error", "update_unexpected", "delete_error", "delete_unexpected"}

(* The delete call returned, without the requested identifier in its
   response. *)
DeleteMismatch ==
    /\ delete_result # None
    /\ \/ delete_result[1] = None
       \/ \E i \in CallsOf("delete") :
             delete_result[1][1].id # Some(calls[i].id)

(* C10: when the delete call returns without the requested identifier in
   its response, delete_dns_record returns false and the process ends with
   exit status 0; every API error or exception of list, create, update or
   delete ends the process with a non-zero status; so a run that ends with
   status 0 has no diagnostic but the delete warning. *)
C10_OnlyDeleteMismatchIsSoft ==
    /\ DeleteMismatch =>
          delete_ret = Some(FALSE) /\ Exited /\ exit_code = 0
    /\ (\E i \in 1..Len(stderr) : stderr[i].kind \in FatalKinds) =>
          Exited /\ exit_code # 0
    /\ (Exited /\ exit_code = 0) =>
          \A i \in 1..Len(stderr) : stderr[i].kind = "delete_warning"

(* An rm has ended with status 0 after a delete response that names
   another identifier. *)
C10_Witness ==
    /\ Exited /\ argv.action = "rm"
    /\ delete_result = Some(Some([id |-> Some(0)]))
    /\ delete_ret = Some(FALSE)
    /\ exit_code = 0

====
